---- MODULE Spec2Model ----
(***************************************************************************)
(* RELogger: the C variant (src/c/RELogger/relogger.c) and the C++ variant *)
(* (src/cpp/RELogger/relogger.cpp) of one global, levelled logger.         *)
(*                                                                         *)
(* The build is chosen once, in Init: variant ("c" or "cpp"), platform     *)
(* (the C variant's mutex macros differ between _WIN32 and POSIX) and      *)
(* debugBuild (DEBUG defined for C, NDEBUG not defined for C++).           *)
(*                                                                         *)
(* Each API call is run by a thread and is split at its accesses to shared *)
(* state (currentLevel, logFile, the mutex, the streams), so that calls of *)
(* different threads interleave as the code allows.                        *)
(*                                                                         *)
(* Text is a sequence of tokens (strings); a stream or a file is the       *)
(* concatenation of the tokens written to it.  A file offset counts        *)
(* tokens.                                                                 *)
(***************************************************************************)
EXTENDS Integers, Sequences, FiniteSets, TLC

\* ---------------------------------------------------------------- bounds

NumThreads == 2
\* Lines on the console (log lines and warnings), written or about to be.
MaxLines == 2
\* Files opened.
MaxHandles == 2

Threads == 1..NumThreads

\* ------------------------------------------------------------- LogLevel

LogLevel_Trace == 0
LogLevel_Debug == 1
LogLevel_Info == 2
LogLevel_Warn == 3
LogLevel_Error == 4
LogLevel_Fatal == 5

LogLevel == LogLevel_Trace..LogLevel_Fatal

RESET_COLOR == "\\033[0m"

LevelToString(level) ==
    CASE level = LogLevel_Trace -> "TRACE"
      [] level = LogLevel_Debug -> "DEBUG"
      [] level = LogLevel_Info  -> "INFO"
      [] level = LogLevel_Warn  -> "WARN"
      [] level = LogLevel_Error -> "ERROR"
      [] level = LogLevel_Fatal -> "FATAL"
      [] OTHER -> "UNKNOWN"

LevelToColor(level) ==
    CASE level = LogLevel_Trace -> "\\033[37m"
      [] level = LogLevel_Debug -> "\\033[36m"
      [] level = LogLevel_Info  -> "\\033[32m"
      [] level = LogLevel_Warn  -> "\\033[33m"
      [] level = LogLevel_Error -> "\\033[31m"
      [] level = LogLevel_Fatal -> "\\033[41m"
      [] OTHER -> "\\033[0m"

\* ------------------------------------------------------- inputs of a call

\* The call site and message of each thread's RELOG_<LEVEL>(msg) calls:
\* __FILE__, __LINE__, __func__ and msg.  Every thread logs its own message.
CallSite(t) ==
    IF t = 1
    THEN [file |-> "x.c", line |-> 42, func |-> "save", message |-> "disk full"]
    ELSE IF t = 2
    THEN [file |-> "main.c", line |-> 7, func |-> "main", message |-> "started"]
    ELSE [file |-> "net.c", line |-> 100 + t, func |-> "poll", message |-> "retry"]

\* The local times time(NULL) may return, as <<hour, minute, second>>.
Times == { <<9, 5, 7>>, <<23, 59, 58>> }

\* The logFilePath arguments: absent or empty, a path that opens, a path that
\* does not.
EmptyPath == ""
GoodPath == "game.log"
BadPath == "/nonexistent/game.log"
Paths == { EmptyPath, GoodPath, BadPath }

Openable(path) == path = GoodPath

\* ----------------------------------------------------------- formatting

Digit(d) ==
    CASE d = 0 -> "0" [] d = 1 -> "1" [] d = 2 -> "2" [] d = 3 -> "3"
      [] d = 4 -> "4" [] d = 5 -> "5" [] d = 6 -> "6" [] d = 7 -> "7"
      [] d = 8 -> "8" [] d = 9 -> "9"

RECURSIVE Decimal(_)
\* %d of a non-negative int: its decimal digits, most significant first.
Decimal(n) == IF n < 10 THEN << Digit(n) >> ELSE Decimal(n \div 10) \o << Digit(n % 10) >>

\* %H, %M, %S: two digits, zero-padded.
TwoDigits(n) == << Digit((n \div 10) % 10), Digit(n % 10) >>

\* strftime(timeStr, sizeof(timeStr), "%H:%M:%S", &tm) / std::put_time.
FormatTime(tm) ==
    TwoDigits(tm[1]) \o << ":" >> \o TwoDigits(tm[2]) \o << ":" >> \o TwoDigits(tm[3])

\* A faulty variant of the file line: it carries the colour and reset codes.
LineBody_Colored(timeStr, level, site) ==
    << LevelToColor(level), "[" >> \o timeStr
        \o << "] ", LevelToString(level), " ", site.file, ":" >>
        \o Decimal(site.line) \o << " (", site.func, ") - ", site.message, RESET_COLOR >>

\* The file line without its newline:
\* fprintf(logFile, "[%s] %s %s:%d (%s) - %s\n", timeStr, LevelToString(level),
\*         file, line, func, message)
LineBody(timeStr, level, site) ==
    << "[" >> \o timeStr \o << "] ", LevelToString(level), " ", site.file, ":" >>
        \o Decimal(site.line) \o << " (", site.func, ") - ", site.message >>

\* The console line without its newline:
\* fprintf(out, "%s[%s] %s %s:%d (%s) - %s%s\n", LevelToColor(level), timeStr,
\*         LevelToString(level), file, line, func, message, RESET_COLOR)
ConsoleBody(timeStr, level, site) ==
    << LevelToColor(level), "[" >> \o timeStr
        \o << "] ", LevelToString(level), " ", site.file, ":" >>
        \o Decimal(site.line) \o << " (", site.func, ") - ", site.message, RESET_COLOR >>

NL == "\n"

\* ---------------------------------------------------------------- state

VARIABLES
    variant,           \* "c": relogger.c, "cpp": relogger.cpp
    platform,          \* "posix" or "win32": selects the C variant's mutex macros
    debugBuild,        \* C: DEBUG is defined; C++: NDEBUG is not defined
    currentLevel,      \* the global minimum log level
    logFile,           \* C: the FILE* (h = 0 is NULL); C++: the ofstream
                       \*    (h = 0 is !is_open(), fail is its failbit)
    mutexInitialized,  \* C only
    logMutex,          \* [state, owner]: owner = 0 when free
    handles,           \* every file opened so far: [path, open, buf, pos]
    disk,              \* path -> the file's content on disk
    console,           \* the writes to stdout and stderr, in order:
                       \*    [stream, text]
    pc,                \* thread -> the statement it is at ("idle": in no call)
    local,             \* thread -> the arguments and locals of its call
    crashed,           \* the process has been killed by undefined behaviour
    \* History variables: the code has no such state; the properties read them.
    lockOrder,         \* the Log calls that got past the lock since the file
                       \*    sink was opened, in that order: [thread, level, timeStr]
    sinkClean,         \* the file sink was opened while no Log call was past
                       \*    the lock, and has been logFile ever since
    phase,             \* where the logger is in its lifecycle: "fresh" (no Init
                       \*    or Shutdown yet), "init" (an Init call is under way),
                       \*    "up" (Init has returned), "closing" (a Shutdown call
                       \*    is under way), "down" (Shutdown has returned)
    contract,          \* every call so far respected the documented contract:
                       \*    Init on a logger that is not initialised and while
                       \*    no other call is under way, no call during Init,
                       \*    Log only on an initialised logger
    lastSet,           \* the argument of the SetLevel call that returned last;
                       \*    LogLevel_Trace while none has
    ref                \* the reference logger: what the calls made so far give
                       \*    by the rules of the specification, whatever the
                       \*    variant (see RefInit)

vars == << variant, platform, debugBuild, currentLevel, logFile, mutexInitialized,
           logMutex, handles, disk, console, pc, local, crashed,
           lockOrder, sinkClean, phase, contract, lastSet, ref >>

\* What a thread in no call holds.
\* console0 and files0 are history: the lengths of the console and of the log
\* file as the Log call found them.
NoLocal == [level |-> LogLevel_Trace, path |-> EmptyPath, timeStr |-> << >>,
            console0 |-> 0, files0 |-> 0]

\* The builds.  The C++ variant differs between platforms only in
\* localtime_s / localtime_r, which fill the same tm.
Builds == { [variant |-> "c", platform |-> "posix"],
            [variant |-> "c", platform |-> "win32"],
            [variant |-> "cpp", platform |-> "posix"] }

\* ------------------------------------------------- the reference logger

\* The reference logger before any call: the default threshold, no file sink,
\* no record on stdout, on stderr or in the file, no Log call waiting for its
\* time, not initialised.  single: the calls so far were made one at a time;
\* once: no Init with a path was made while a file sink was held; guarded: no
\* record was due while the logger was not initialised.
RefInit ==
    [level |-> LogLevel_Trace, sink |-> FALSE, out |-> << >>, err |-> << >>,
     file |-> << >>, pending |-> << >>, up |-> FALSE,
     single |-> TRUE, once |-> TRUE, guarded |-> TRUE]

\* The reference logger once calls have overlapped: it says nothing more.
RefNone ==
    [level |-> LogLevel_Trace, sink |-> FALSE, out |-> << >>, err |-> << >>,
     file |-> << >>, pending |-> << >>, up |-> FALSE,
     single |-> FALSE, once |-> FALSE, guarded |-> FALSE]

\* SetLevel(level): the threshold is level.
RefSetLevel(r, level) == [r EXCEPT !.level = level]

\* Init(path): the logger is initialised.  An empty path changes nothing
\* else; a path that opens gives a file sink on the truncated file; a path
\* that does not open gives no file sink.
RefInitCall(r, path) ==
    IF path = ""
    THEN [r EXCEPT !.up = TRUE]
    ELSE [r EXCEPT !.up = TRUE,
                   !.once = @ /\ ~r.sink,
                   !.sink = (path = "game.log"),
                   !.file = IF path = "game.log" THEN << >> ELSE @]

\* Shutdown(): no file sink, and the logger is not initialised.
RefShutdown(r) == [r EXCEPT !.sink = FALSE, !.up = FALSE]

\* Log(level, ...) by thread t: in a debug build, at or above the threshold,
\* a record is due.
RefLogCall(r, dbg, t, level) ==
    IF dbg /\ level >= r.level
    THEN [r EXCEPT !.pending = << [thread |-> t, level |-> level] >>,
                   !.guarded = @ /\ r.up]
    ELSE r

\* The record that is due, with its time: the coloured line on stderr for
\* ERROR and FATAL and on stdout otherwise, and the plain line in the file if
\* there is a file sink.
RefEmit(r, timeStr) ==
    IF r.pending = << >>
    THEN r
    ELSE LET e == r.pending[1]
             site == CallSite(e.thread)
             line == << "[" >> \o timeStr
                        \o << "] ", LevelToString(e.level), " ", site.file, ":" >>
                        \o Decimal(site.line)
                        \o << " (", site.func, ") - ", site.message >>
             coloured == << LevelToColor(e.level) >> \o line \o << RESET_COLOR >>
         IN [r EXCEPT !.pending = << >>,
                      !.err = IF e.level >= LogLevel_Error THEN Append(@, coloured) ELSE @,
                      !.out = IF e.level >= LogLevel_Error THEN @ ELSE Append(@, coloured),
                      !.file = IF r.sink THEN @ \o line \o << "\n" >> ELSE @]

\* The state before any call: the static initialisers.
Init ==
    /\ \E b \in Builds : variant = b.variant /\ platform = b.platform
    /\ debugBuild \in BOOLEAN
    /\ currentLevel = LogLevel_Trace
    /\ logFile = [h |-> 0, fail |-> FALSE]
    /\ mutexInitialized = 0
    /\ logMutex = [state |-> IF variant = "c" /\ platform = "win32"
                             THEN "uninit" ELSE "ready",
                   owner |-> 0]
    /\ handles = << >>
    /\ disk = [p \in { GoodPath } |-> << >>]
    /\ console = << >>
    /\ pc = [t \in Threads |-> "idle"]
    /\ local = [t \in Threads |-> NoLocal]
    /\ crashed = FALSE
    /\ lockOrder = << >>
    /\ sinkClean = FALSE
    /\ phase = "fresh"
    /\ contract = TRUE
    /\ lastSet = LogLevel_Trace
    /\ ref = RefInit

\* ---------------------------------------------------- streams and files

RECURSIVE Flatten(_)
\* The concatenation of the texts of a sequence of writes.
Flatten(ws) == IF ws = << >> THEN << >> ELSE Head(ws).text \o Flatten(Tail(ws))

SelectStream(s) == SelectSeq(console, LAMBDA w : w.stream = s)

\* What has been written to stdout and to stderr.
Stdout == Flatten(SelectStream("stdout"))
Stderr == Flatten(SelectStream("stderr"))

ConsoleWrite(s, text) == Append(console, [stream |-> s, text |-> text])

\* write(2) of data at offset pos: a gap past the end of the file reads as NULs.
WriteAt(content, pos, data) ==
    LET gap == IF Len(content) < pos THEN pos - Len(content) ELSE 0
        padded == content \o [i \in 1..gap |-> "\\0"]
    IN SubSeq(padded, 1, pos) \o data \o SubSeq(padded, pos + Len(data) + 1, Len(padded))

\* A faulty variant of the open: mode "a" / app, the file keeps its content.
OpenTrunc_Append(path) ==
    /\ handles' = Append(handles, [path |-> path, open |-> TRUE, buf |-> << >>,
                                   pos |-> Len(disk[path])])
    /\ UNCHANGED disk

\* fopen(path, "w") / ofstream::open(path, out | trunc) that succeeds: the file
\* is truncated and a new handle at offset 0 refers to it.
OpenTrunc(path) ==
    /\ handles' = Append(handles, [path |-> path, open |-> TRUE, buf |-> << >>, pos |-> 0])
    /\ disk' = [disk EXCEPT ![path] = << >>]

\* fprintf / operator<< on an open handle: the text goes to the stdio buffer.
Buffered(h, text) == [handles EXCEPT ![h].buf = @ \o text]

\* A faulty variant of the flush: it closes the handle.
FlushedHandle_Closes(hd) == [hd EXCEPT !.buf = << >>, !.pos = @ + Len(hd.buf), !.open = FALSE]

\* fflush / ostream::flush on an open handle: the buffer goes to disk at the
\* handle's offset.
FlushedHandle(hd) == [hd EXCEPT !.buf = << >>, !.pos = @ + Len(hd.buf)]
FlushedDisk(hd) == [disk EXCEPT ![hd.path] = WriteAt(@, hd.pos, hd.buf)]

\* The model's bounds: the lines written to the console so far plus the calls
\* under way that may write one, and the files opened so far plus the Init
\* calls under way that may open one.
LinesStarted ==
    Len(SelectSeq(console, LAMBDA w : w.text # << NL >>))
        + Cardinality({ t \in Threads :
                          pc[t] \in { "log_filter", "log_lock", "log_console",
                                      "init_open", "init_warn" } })
HandlesStarted ==
    Len(handles)
        + Cardinality({ t \in Threads : pc[t] = "init_open" })

\* The mutex is usable: initialised and not destroyed.
MutexValid == logMutex.state = "ready"

RECURSIVE FlushAll(_, _)
\* fflush(NULL): every open output stream is flushed.  Returns <<handles, disk>>
\* after flushing the handles from index i on.
FlushAll(i, hd) ==
    IF i > Len(hd[1]) THEN hd
    ELSE LET h == hd[1][i]
         IN IF h.open
            THEN FlushAll(i + 1, << [hd[1] EXCEPT ![i] = FlushedHandle(h)],
                                    [hd[2] EXCEPT ![h.path] = WriteAt(@, h.pos, h.buf)] >>)
            ELSE FlushAll(i + 1, hd)

build == << variant, platform, debugBuild >>
files == << handles, disk >>
sinkHistory == << lockOrder, sinkClean >>
usage == << phase, contract >>

\* The statements of Log from the lock to the unlock.
LogLockedPcs == { "log_console", "log_console_endl", "log_file", "log_fflush", "log_unlock" }

\* The reference logger after a call that thread t begins: r if this call and
\* all calls before it were made one at a time.
RefCall(t, r) ==
    IF ref.single /\ \A u \in Threads \ { t } : pc[u] = "idle" THEN r ELSE RefNone

\* ---------------------------------------------------------------- mutex

\* LOCK_MUTEX() / std::lock_guard's constructor, on a usable mutex: blocks while
\* another thread owns it.
Acquire(t) ==
    /\ logMutex.owner = 0
    /\ logMutex' = [logMutex EXCEPT !.owner = t]

\* UNLOCK_MUTEX() / std::lock_guard's destructor by the owner.
Released(t) == IF logMutex.owner = t THEN [logMutex EXCEPT !.owner = 0] ELSE logMutex

\* pthread_mutex_lock / EnterCriticalSection in the C variant.  On a mutex that
\* is not initialised or is destroyed the behaviour is undefined: the call may
\* work as a lock, or return at once without the lock (glibc: EINVAL, which
\* the code does not check); the crash is Log_LockCrash.
LockC(t) ==
    \/ Acquire(t)
    \/ /\ ~MutexValid
       /\ UNCHANGED logMutex

\* pthread_mutex_unlock / LeaveCriticalSection in the C variant.  By a thread
\* that does not own the mutex (it got past an unusable mutex) the behaviour is
\* undefined: nothing happens, or the owner's lock is released.
UnlockC(t) ==
    \/ logMutex' = Released(t)
    \/ /\ logMutex.owner \notin { 0, t }
       /\ logMutex' = [logMutex EXCEPT !.owner = 0]

\* ------------------------------------------------------------- SetLevel

\* C: currentLevel = level; with no lock.
SetLevel_C(t, level) ==
    /\ ~crashed
    /\ variant = "c"
    /\ pc[t] = "idle"
    /\ currentLevel' = level
    /\ UNCHANGED << build, logFile, mutexInitialized, logMutex, files, console, pc,
                    local, crashed >>
    /\ contract' = (contract /\ phase # "init")
    /\ UNCHANGED phase
    /\ UNCHANGED sinkHistory
    /\ lastSet' = level
    /\ ref' = RefCall(t, RefSetLevel(ref, level))

\* C++: std::lock_guard<std::mutex> lock(logMutex);
SetLevel_Lock(t, level) ==
    /\ ~crashed
    /\ variant = "cpp"
    /\ pc[t] = "idle"
    /\ Acquire(t)
    /\ pc' = [pc EXCEPT ![t] = "set_write"]
    /\ local' = [local EXCEPT ![t].level = level]
    /\ UNCHANGED << build, currentLevel, logFile, mutexInitialized, files, console,
                    crashed >>
    /\ contract' = (contract /\ phase # "init")
    /\ UNCHANGED phase
    /\ UNCHANGED sinkHistory
    /\ UNCHANGED lastSet
    /\ ref' = RefCall(t, RefSetLevel(ref, level))

\* C++: currentLevel = level; and the return: the lock_guard unlocks.
SetLevel_Write(t) ==
    /\ ~crashed
    /\ pc[t] = "set_write"
    /\ currentLevel' = local[t].level
    /\ logMutex' = Released(t)
    /\ pc' = [pc EXCEPT ![t] = "idle"]
    /\ local' = [local EXCEPT ![t] = NoLocal]
    /\ UNCHANGED << build, logFile, mutexInitialized, files, console, crashed >>
    /\ UNCHANGED << sinkHistory, usage >>
    /\ lastSet' = local[t].level
    /\ UNCHANGED ref

\* ------------------------------------------------------------- GetLevel

\* C: return currentLevel; with no lock.  The returned value is in
\* local[t].level at "get_done".
GetLevel_C(t) ==
    /\ ~crashed
    /\ variant = "c"
    /\ pc[t] = "idle"
    /\ local' = [local EXCEPT ![t].level = currentLevel]
    /\ pc' = [pc EXCEPT ![t] = "get_done"]
    /\ UNCHANGED << build, currentLevel, logFile, mutexInitialized, logMutex, files,
                    console, crashed >>
    /\ contract' = (contract /\ phase # "init")
    /\ UNCHANGED phase
    /\ UNCHANGED sinkHistory
    /\ UNCHANGED lastSet
    /\ ref' = RefCall(t, ref)

\* C++: std::lock_guard<std::mutex> lock(logMutex);
GetLevel_Lock(t) ==
    /\ ~crashed
    /\ variant = "cpp"
    /\ pc[t] = "idle"
    /\ Acquire(t)
    /\ pc' = [pc EXCEPT ![t] = "get_read"]
    /\ UNCHANGED << build, currentLevel, logFile, mutexInitialized, files, console,
                    local, crashed >>
    /\ contract' = (contract /\ phase # "init")
    /\ UNCHANGED phase
    /\ UNCHANGED sinkHistory
    /\ UNCHANGED lastSet
    /\ ref' = RefCall(t, ref)

\* C++: return currentLevel; the lock_guard unlocks.
GetLevel_Read(t) ==
    /\ ~crashed
    /\ pc[t] = "get_read"
    /\ local' = [local EXCEPT ![t].level = currentLevel]
    /\ logMutex' = Released(t)
    /\ pc' = [pc EXCEPT ![t] = "get_done"]
    /\ UNCHANGED << build, currentLevel, logFile, mutexInitialized, files, console,
                    crashed >>
    /\ UNCHANGED << sinkHistory, usage >>
    /\ UNCHANGED lastSet
    /\ UNCHANGED ref

\* The caller has the result.
GetLevel_Return(t) ==
    /\ ~crashed
    /\ pc[t] = "get_done"
    /\ pc' = [pc EXCEPT ![t] = "idle"]
    /\ local' = [local EXCEPT ![t] = NoLocal]
    /\ UNCHANGED << build, currentLevel, logFile, mutexInitialized, logMutex, files,
                    console, crashed >>
    /\ UNCHANGED << sinkHistory, usage >>
    /\ UNCHANGED lastSet
    /\ UNCHANGED ref

\* ------------------------------------------------------------------ Log

\* Faulty variants of the filter: the comparison off by one, the comparison
\* inclusive, the comparison reversed.
Filtered_OffByOne(level) == level + 1 < currentLevel
Filtered_Inclusive(level) == level <= currentLevel
Filtered_Reversed(level) == level > currentLevel

\* if (level < currentLevel) return;
Filtered(level) == level < currentLevel

\* A faulty variant of the stream choice: LogLevel_Error itself goes to stdout.
OutStream_AboveError(level) == IF level > LogLevel_Error THEN "stderr" ELSE "stdout"

\* (level >= LogLevel_Error) ? stderr : stdout
OutStream(level) == IF level >= LogLevel_Error THEN "stderr" ELSE "stdout"

\* The call: RELOG_<LEVEL>(msg) enters the function.
Log_Call(t, level) ==
    /\ ~crashed
    /\ pc[t] = "idle"
    /\ LinesStarted < MaxLines
    /\ pc' = [pc EXCEPT ![t] = "log_filter"]
    /\ local' = [local EXCEPT ![t].level = level, ![t].console0 = Len(console),
                              ![t].files0 = Len(disk[GoodPath])]
    /\ UNCHANGED << build, currentLevel, logFile, mutexInitialized, logMutex, files,
                    console, crashed >>
    /\ contract' = (contract /\ phase = "up")
    /\ UNCHANGED phase
    /\ UNCHANGED sinkHistory
    /\ UNCHANGED lastSet
    /\ ref' = RefCall(t, RefLogCall(ref, debugBuild, t, level))

\* A faulty variant of Log_Filter: the body is compiled into every build.
Log_Filter_AnyBuild(t) ==
    /\ ~crashed
    /\ pc[t] = "log_filter"
    /\ pc' = [pc EXCEPT ![t] = IF Filtered(local[t].level) THEN "log_return" ELSE "log_lock"]
    /\ UNCHANGED local
    /\ UNCHANGED << build, currentLevel, logFile, mutexInitialized, logMutex, files,
                    console, crashed >>
    /\ UNCHANGED << sinkHistory, usage >>
    /\ UNCHANGED lastSet
    /\ UNCHANGED ref

\* #ifdef DEBUG / #ifndef NDEBUG: without the debug flag the body is compiled
\* out and the call returns.  With it, the filter reads currentLevel before
\* the lock is taken.
Log_Filter(t) ==
    /\ ~crashed
    /\ pc[t] = "log_filter"
    /\ pc' = [pc EXCEPT ![t] = IF ~debugBuild \/ Filtered(local[t].level)
                              THEN "log_return" ELSE "log_lock"]
    /\ UNCHANGED local
    /\ UNCHANGED << build, currentLevel, logFile, mutexInitialized, logMutex, files,
                    console, crashed >>
    /\ UNCHANGED << sinkHistory, usage >>
    /\ UNCHANGED lastSet
    /\ UNCHANGED ref

\* A faulty variant of Log_Lock: the filter is evaluated again under the lock,
\* and a call that the threshold now excludes emits nothing.
Log_Lock_FiltersAgain(t, now) ==
    /\ ~crashed
    /\ pc[t] = "log_lock"
    /\ IF variant = "c" THEN LockC(t) ELSE Acquire(t)
    /\ local' = [local EXCEPT ![t].timeStr = FormatTime(now)]
    /\ pc' = [pc EXCEPT ![t] = IF Filtered(local[t].level) THEN "log_unlock" ELSE "log_console"]
    /\ UNCHANGED << build, currentLevel, logFile, mutexInitialized, files, console,
                    crashed >>
    /\ UNCHANGED << sinkHistory, usage >>
    /\ UNCHANGED lastSet
    /\ ref' = RefEmit(ref, FormatTime(now))

\* LOCK_MUTEX() / lock_guard, then the timestamp: time(), localtime, strftime.
Log_Lock(t, now) ==
    /\ ~crashed
    /\ pc[t] = "log_lock"
    /\ IF variant = "c" THEN LockC(t) ELSE Acquire(t)
    /\ local' = [local EXCEPT ![t].timeStr = FormatTime(now)]
    /\ pc' = [pc EXCEPT ![t] = "log_console"]
    /\ UNCHANGED << build, currentLevel, logFile, mutexInitialized, files, console,
                    crashed >>
    /\ lockOrder' = IF sinkClean
                    THEN Append(lockOrder, [thread |-> t, level |-> local[t].level,
                                            timeStr |-> FormatTime(now)])
                    ELSE lockOrder
    /\ UNCHANGED << sinkClean, usage >>
    /\ UNCHANGED lastSet
    /\ ref' = RefEmit(ref, FormatTime(now))

\* EnterCriticalSection on a CRITICAL_SECTION that is not initialised or is
\* deleted may also kill the process.
Log_LockCrash(t) ==
    /\ ~crashed
    /\ pc[t] = "log_lock"
    /\ variant = "c"
    /\ platform = "win32"
    /\ ~MutexValid
    /\ crashed' = TRUE
    /\ UNCHANGED << build, currentLevel, logFile, mutexInitialized, logMutex, files,
                    console, pc, local >>
    /\ UNCHANGED << sinkHistory, usage >>
    /\ UNCHANGED lastSet
    /\ UNCHANGED ref

\* C: one fprintf(out, ...) of the whole line.  C++: the chain of << up to the
\* reset code; std::endl follows in Log_ConsoleEndl.
Log_Console(t) ==
    /\ ~crashed
    /\ pc[t] = "log_console"
    /\ LET body == ConsoleBody(local[t].timeStr, local[t].level, CallSite(t))
           out == OutStream(local[t].level)
       IN IF variant = "c"
          THEN /\ console' = ConsoleWrite(out, body \o << NL >>)
               /\ pc' = [pc EXCEPT ![t] = "log_file"]
          ELSE /\ console' = ConsoleWrite(out, body)
               /\ pc' = [pc EXCEPT ![t] = "log_console_endl"]
    /\ UNCHANGED << build, currentLevel, logFile, mutexInitialized, logMutex, files,
                    local, crashed >>
    /\ UNCHANGED << sinkHistory, usage >>
    /\ UNCHANGED lastSet
    /\ UNCHANGED ref

\* C++: << std::endl on the console stream.
Log_ConsoleEndl(t) ==
    /\ ~crashed
    /\ pc[t] = "log_console_endl"
    /\ console' = ConsoleWrite(OutStream(local[t].level), << NL >>)
    /\ pc' = [pc EXCEPT ![t] = "log_file"]
    /\ UNCHANGED << build, currentLevel, logFile, mutexInitialized, logMutex, files,
                    local, crashed >>
    /\ UNCHANGED << sinkHistory, usage >>
    /\ UNCHANGED lastSet
    /\ UNCHANGED ref

\* if (logFile != NULL) fprintf(logFile, ...)   /   if (logFile.is_open())
\* logFile << ... : the line goes to the handle's buffer.  C++ leaves the
\* newline to std::endl, and a stream whose failbit is set takes nothing.  C on
\* a FILE* that fclose has closed is undefined: here the text is lost (the
\* crash is Log_FileCrash).
Log_File(t) ==
    /\ ~crashed
    /\ pc[t] = "log_file"
    /\ LET body == LineBody(local[t].timeStr, local[t].level, CallSite(t))
           h == logFile.h
       IN IF h = 0
          THEN /\ pc' = [pc EXCEPT ![t] = "log_unlock"]
               /\ UNCHANGED handles
          ELSE /\ pc' = [pc EXCEPT ![t] = "log_fflush"]
               /\ handles' = IF variant = "c"
                             THEN IF handles[h].open
                                  THEN Buffered(h, body \o << NL >>)
                                  ELSE handles
                             ELSE IF logFile.fail THEN handles ELSE Buffered(h, body)
    /\ UNCHANGED << build, currentLevel, logFile, mutexInitialized, logMutex, disk,
                    console, local, crashed >>
    /\ UNCHANGED << sinkHistory, usage >>
    /\ UNCHANGED lastSet
    /\ UNCHANGED ref

\* A faulty variant of Log_Flush: the line is left in the buffer (C++: "\n" in
\* place of std::endl).
Log_Flush_NoFlush(t) ==
    /\ ~crashed
    /\ pc[t] = "log_fflush"
    /\ LET h == logFile.h
       IN IF variant = "c" \/ h = 0 \/ logFile.fail
          THEN UNCHANGED files
          ELSE /\ handles' = Buffered(h, << NL >>)
               /\ UNCHANGED disk
    /\ pc' = [pc EXCEPT ![t] = "log_unlock"]
    /\ UNCHANGED << build, currentLevel, logFile, mutexInitialized, logMutex, console,
                    local, crashed >>
    /\ UNCHANGED << sinkHistory, usage >>
    /\ UNCHANGED lastSet
    /\ UNCHANGED ref

\* fflush(logFile)   /   << std::endl: the newline, then flush.  C reads logFile
\* again: fflush(NULL) flushes every open stream, and a closed FILE* is
\* undefined (nothing is written here; the crash is Log_FileCrash).
Log_Flush(t) ==
    /\ ~crashed
    /\ pc[t] = "log_fflush"
    /\ LET h == logFile.h
       IN IF variant = "c"
          THEN IF h = 0
               THEN /\ handles' = FlushAll(1, << handles, disk >>)[1]
                    /\ disk' = FlushAll(1, << handles, disk >>)[2]
               ELSE IF handles[h].open
                    THEN /\ handles' = [handles EXCEPT ![h] = FlushedHandle(@)]
                         /\ disk' = FlushedDisk(handles[h])
                    ELSE UNCHANGED files
          ELSE IF h = 0 \/ logFile.fail
               THEN UNCHANGED files
               ELSE LET hd == [handles[h] EXCEPT !.buf = @ \o << NL >>]
                    IN /\ handles' = [handles EXCEPT ![h] = FlushedHandle(hd)]
                       /\ disk' = FlushedDisk(hd)
    /\ pc' = [pc EXCEPT ![t] = "log_unlock"]
    /\ UNCHANGED << build, currentLevel, logFile, mutexInitialized, logMutex, console,
                    local, crashed >>
    /\ UNCHANGED << sinkHistory, usage >>
    /\ UNCHANGED lastSet
    /\ UNCHANGED ref

\* C: fprintf or fflush on a FILE* that fclose has closed may kill the process.
Log_FileCrash(t) ==
    /\ ~crashed
    /\ pc[t] \in { "log_file", "log_fflush" }
    /\ variant = "c"
    /\ logFile.h # 0
    /\ ~handles[logFile.h].open
    /\ crashed' = TRUE
    /\ UNCHANGED << build, currentLevel, logFile, mutexInitialized, logMutex, files,
                    console, pc, local >>
    /\ UNCHANGED << sinkHistory, usage >>
    /\ UNCHANGED lastSet
    /\ UNCHANGED ref

\* UNLOCK_MUTEX() / the lock_guard's destructor.
Log_Unlock(t) ==
    /\ ~crashed
    /\ pc[t] = "log_unlock"
    /\ IF variant = "c" THEN UnlockC(t) ELSE logMutex' = Released(t)
    /\ pc' = [pc EXCEPT ![t] = "log_return"]
    /\ UNCHANGED << build, currentLevel, logFile, mutexInitialized, files, console,
                    local, crashed >>
    /\ UNCHANGED << sinkHistory, usage >>
    /\ UNCHANGED lastSet
    /\ UNCHANGED ref

\* The call returns to its caller.
Log_Return(t) ==
    /\ ~crashed
    /\ pc[t] = "log_return"
    /\ pc' = [pc EXCEPT ![t] = "idle"]
    /\ local' = [local EXCEPT ![t] = NoLocal]
    /\ UNCHANGED << build, currentLevel, logFile, mutexInitialized, logMutex, files,
                    console, crashed >>
    /\ UNCHANGED << sinkHistory, usage >>
    /\ UNCHANGED lastSet
    /\ UNCHANGED ref

\* ----------------------------------------------------------------- Init

\* strerror(errno) of the failed fopen.
OpenError == "No such file or directory"

\* C: fprintf(stderr, "Warning: Could not open log file '%s' (error: %s)\n", ...)
\* C++: std::cerr << "\033[31m[LOGGER ERROR] Failed to open log file: " << path
\*                << "\033[0m" << std::endl
WarningText(path) ==
    IF variant = "c"
    THEN << "Warning: Could not open log file '", path, "' (error: ", OpenError, ")", NL >>
    ELSE << "\\033[31m[LOGGER ERROR] Failed to open log file: ", path, "\\033[0m", NL >>

\* The bound on an Init call: one with a path may write a warning and open a
\* file.
InitAllowed(path) ==
    path # EmptyPath => LinesStarted < MaxLines /\ HandlesStarted < MaxHandles

\* The contract of Init (relogger.h: "Must be called before any logging
\* occurs"): the logger is not initialised and no other call is under way.
InitInContract(t) ==
    /\ phase \in { "fresh", "down" }
    /\ \A u \in Threads \ { t } : pc[u] = "idle"

\* A faulty variant of Init_Mutex: Init puts the threshold back to the default.
Init_Mutex_ResetsLevel(t, path) ==
    /\ ~crashed
    /\ variant = "c"
    /\ pc[t] = "idle"
    /\ InitAllowed(path)
    /\ logMutex' = IF platform = "win32" THEN [state |-> "ready", owner |-> 0] ELSE logMutex
    /\ mutexInitialized' = 1
    /\ IF path # EmptyPath
       THEN /\ pc' = [pc EXCEPT ![t] = "init_open"]
            /\ local' = [local EXCEPT ![t].path = path]
       ELSE UNCHANGED << pc, local >>
    /\ currentLevel' = LogLevel_Trace
    /\ UNCHANGED << build, logFile, files, console, crashed >>
    /\ contract' = (contract /\ InitInContract(t))
    /\ phase' = IF path # EmptyPath THEN "init" ELSE "up"
    /\ UNCHANGED sinkHistory
    /\ UNCHANGED lastSet
    /\ ref' = RefCall(t, RefInitCall(ref, path))

\* C: INIT_MUTEX(); mutexInitialized = 1; if (logFilePath && strlen(...) > 0).
\* INIT_MUTEX() is InitializeCriticalSection on _WIN32 and nothing on POSIX,
\* where a destroyed mutex stays destroyed.
Init_Mutex(t, path) ==
    /\ ~crashed
    /\ variant = "c"
    /\ pc[t] = "idle"
    /\ InitAllowed(path)
    /\ logMutex' = IF platform = "win32" THEN [state |-> "ready", owner |-> 0] ELSE logMutex
    /\ mutexInitialized' = 1
    /\ IF path # EmptyPath
       THEN /\ pc' = [pc EXCEPT ![t] = "init_open"]
            /\ local' = [local EXCEPT ![t].path = path]
       ELSE UNCHANGED << pc, local >>
    /\ UNCHANGED << build, currentLevel, logFile, files, console, crashed >>
    /\ contract' = (contract /\ InitInContract(t))
    /\ phase' = IF path # EmptyPath THEN "init" ELSE "up"
    /\ UNCHANGED sinkHistory
    /\ UNCHANGED lastSet
    /\ ref' = RefCall(t, RefInitCall(ref, path))

\* C++: std::lock_guard<std::mutex> lock(logMutex);
Init_Lock(t, path) ==
    /\ ~crashed
    /\ variant = "cpp"
    /\ pc[t] = "idle"
    /\ InitAllowed(path)
    /\ Acquire(t)
    /\ pc' = [pc EXCEPT ![t] = "init_open"]
    /\ local' = [local EXCEPT ![t].path = path]
    /\ UNCHANGED << build, currentLevel, logFile, mutexInitialized, files, console,
                    crashed >>
    /\ contract' = (contract /\ InitInContract(t))
    /\ phase' = "init"
    /\ UNCHANGED sinkHistory
    /\ UNCHANGED lastSet
    /\ ref' = RefCall(t, RefInitCall(ref, path))

\* C: logFile = fopen(logFilePath, "w"): the new FILE*, or NULL; the FILE* held
\* before is overwritten, not closed.
Init_OpenC(t) ==
    /\ ~crashed
    /\ pc[t] = "init_open"
    /\ variant = "c"
    /\ IF Openable(local[t].path)
       THEN /\ OpenTrunc(local[t].path)
            /\ logFile' = [logFile EXCEPT !.h = Len(handles) + 1]
            /\ pc' = [pc EXCEPT ![t] = "idle"]
            /\ local' = [local EXCEPT ![t] = NoLocal]
       ELSE /\ logFile' = [logFile EXCEPT !.h = 0]
            /\ pc' = [pc EXCEPT ![t] = "init_warn"]
            /\ UNCHANGED << files, local >>
    /\ UNCHANGED << build, currentLevel, mutexInitialized, logMutex, console, crashed >>
    /\ lockOrder' = << >>
    /\ sinkClean' = (Openable(local[t].path) /\ \A u \in Threads : pc[u] \notin LogLockedPcs)
    /\ phase' = IF Openable(local[t].path) THEN "up" ELSE phase
    /\ UNCHANGED contract
    /\ UNCHANGED lastSet
    /\ UNCHANGED ref

\* C++: if (!logFilePath.empty()) logFile.open(path, out | trunc).  open() on a
\* stream that is open fails without touching the file; a failed open sets the
\* failbit, a successful one clears the state.  if (!logFile) the warning
\* follows.
Init_OpenCpp(t) ==
    /\ ~crashed
    /\ pc[t] = "init_open"
    /\ variant = "cpp"
    /\ IF local[t].path = EmptyPath
       THEN /\ logMutex' = Released(t)
            /\ pc' = [pc EXCEPT ![t] = "idle"]
            /\ local' = [local EXCEPT ![t] = NoLocal]
            /\ UNCHANGED << logFile, files >>
       ELSE IF logFile.h = 0 /\ Openable(local[t].path)
       THEN /\ OpenTrunc(local[t].path)
            /\ logFile' = [h |-> Len(handles) + 1, fail |-> FALSE]
            /\ logMutex' = Released(t)
            /\ pc' = [pc EXCEPT ![t] = "idle"]
            /\ local' = [local EXCEPT ![t] = NoLocal]
       ELSE /\ logFile' = [logFile EXCEPT !.fail = TRUE]
            /\ pc' = [pc EXCEPT ![t] = "init_warn"]
            /\ UNCHANGED << logMutex, files, local >>
    /\ UNCHANGED << build, currentLevel, mutexInitialized, console, crashed >>
    /\ IF local[t].path # EmptyPath /\ logFile.h = 0
       THEN /\ lockOrder' = << >>
            /\ sinkClean' = Openable(local[t].path)
       ELSE UNCHANGED sinkHistory
    /\ phase' = IF local[t].path = EmptyPath \/ (logFile.h = 0 /\ Openable(local[t].path))
              THEN "up" ELSE phase
    /\ UNCHANGED contract
    /\ UNCHANGED lastSet
    /\ UNCHANGED ref

\* A faulty variant of the warning: it goes to stdout.
Init_Warn_Stdout(t) ==
    /\ ~crashed
    /\ pc[t] = "init_warn"
    /\ console' = ConsoleWrite("stdout", WarningText(local[t].path))
    /\ logMutex' = IF variant = "cpp" THEN Released(t) ELSE logMutex
    /\ pc' = [pc EXCEPT ![t] = "idle"]
    /\ local' = [local EXCEPT ![t] = NoLocal]
    /\ UNCHANGED << build, currentLevel, logFile, mutexInitialized, files, crashed >>
    /\ phase' = "up"
    /\ UNCHANGED << sinkHistory, contract >>
    /\ UNCHANGED lastSet
    /\ UNCHANGED ref

\* The warning, to stderr, and the return (C++: the lock_guard unlocks).
Init_Warn(t) ==
    /\ ~crashed
    /\ pc[t] = "init_warn"
    /\ console' = ConsoleWrite("stderr", WarningText(local[t].path))
    /\ logMutex' = IF variant = "cpp" THEN Released(t) ELSE logMutex
    /\ pc' = [pc EXCEPT ![t] = "idle"]
    /\ local' = [local EXCEPT ![t] = NoLocal]
    /\ UNCHANGED << build, currentLevel, logFile, mutexInitialized, files, crashed >>
    /\ phase' = "up"
    /\ UNCHANGED << sinkHistory, contract >>
    /\ UNCHANGED lastSet
    /\ UNCHANGED ref

\* ------------------------------------------------------------- Shutdown

\* A faulty variant of Shutdown_Check: logFile is closed without the test for NULL.
Shutdown_Check_NoNullTest(t) ==
    /\ ~crashed
    /\ variant = "c"
    /\ pc[t] = "idle"
    /\ pc' = [pc EXCEPT ![t] = "shut_close"]
    /\ UNCHANGED << build, currentLevel, logFile, mutexInitialized, logMutex, files,
                    console, local, crashed >>
    /\ contract' = (contract /\ phase # "init")
    /\ phase' = IF phase = "down" THEN "down" ELSE "closing"
    /\ UNCHANGED sinkHistory
    /\ UNCHANGED lastSet
    /\ ref' = RefCall(t, RefShutdown(ref))

\* C: if (logFile != NULL)
Shutdown_Check(t) ==
    /\ ~crashed
    /\ variant = "c"
    /\ pc[t] = "idle"
    /\ pc' = [pc EXCEPT ![t] = IF logFile.h # 0 THEN "shut_close" ELSE "shut_mutex"]
    /\ UNCHANGED << build, currentLevel, logFile, mutexInitialized, logMutex, files,
                    console, local, crashed >>
    /\ contract' = (contract /\ phase # "init")
    /\ phase' = IF phase = "down" THEN "down" ELSE "closing"
    /\ UNCHANGED sinkHistory
    /\ UNCHANGED lastSet
    /\ ref' = RefCall(t, RefShutdown(ref))

\* A faulty variant of fclose: the handle stays open.
Closed_LeavesOpen(h) == [handles EXCEPT ![h] = [@ EXCEPT !.buf = << >>]]

\* fclose of an open handle: its buffer goes to disk (FlushedDisk) and the
\* handle is closed; a closed handle has no buffer and no offset.
Closed(h) == [handles EXCEPT ![h] = [@ EXCEPT !.open = FALSE, !.buf = << >>, !.pos = 0]]

\* C: fflush(logFile); fclose(logFile);  logFile is read again: on NULL or on a
\* FILE* already closed fclose is undefined (nothing happens here; the crash is
\* Shutdown_CloseCrash).
Shutdown_Close(t) ==
    /\ ~crashed
    /\ pc[t] = "shut_close"
    /\ LET h == logFile.h
       IN IF h # 0 /\ handles[h].open
          THEN /\ handles' = Closed(h)
               /\ disk' = FlushedDisk(handles[h])
          ELSE UNCHANGED files
    /\ pc' = [pc EXCEPT ![t] = "shut_null"]
    /\ UNCHANGED << build, currentLevel, logFile, mutexInitialized, logMutex, console,
                    local, crashed >>
    /\ sinkClean' = FALSE
    /\ lockOrder' = << >>
    /\ UNCHANGED usage
    /\ UNCHANGED lastSet
    /\ UNCHANGED ref

Shutdown_CloseCrash(t) ==
    /\ ~crashed
    /\ pc[t] = "shut_close"
    /\ IF logFile.h = 0 THEN TRUE ELSE ~handles[logFile.h].open
    /\ crashed' = TRUE
    /\ UNCHANGED << build, currentLevel, logFile, mutexInitialized, logMutex, files,
                    console, pc, local >>
    /\ UNCHANGED << sinkHistory, usage >>
    /\ UNCHANGED lastSet
    /\ UNCHANGED ref

\* Shutdown_Null if it also put the threshold back to its default.
Shutdown_Null_ResetsLevel(t) ==
    /\ ~crashed
    /\ pc[t] = "shut_null"
    /\ logFile' = [logFile EXCEPT !.h = 0]
    /\ currentLevel' = LogLevel_Trace
    /\ pc' = [pc EXCEPT ![t] = "shut_mutex"]
    /\ UNCHANGED << build, mutexInitialized, logMutex, files, console,
                    local, crashed >>
    /\ sinkClean' = FALSE
    /\ lockOrder' = << >>
    /\ UNCHANGED usage
    /\ UNCHANGED lastSet
    /\ UNCHANGED ref

\* C: logFile = NULL;
Shutdown_Null(t) ==
    /\ ~crashed
    /\ pc[t] = "shut_null"
    /\ logFile' = [logFile EXCEPT !.h = 0]
    /\ pc' = [pc EXCEPT ![t] = "shut_mutex"]
    /\ UNCHANGED << build, currentLevel, mutexInitialized, logMutex, files, console,
                    local, crashed >>
    /\ sinkClean' = FALSE
    /\ lockOrder' = << >>
    /\ UNCHANGED usage
    /\ UNCHANGED lastSet
    /\ UNCHANGED ref

\* C: if (mutexInitialized) { DESTROY_MUTEX(); mutexInitialized = 0; } and the
\* return.  Destroying a mutex that a thread owns is undefined: it is destroyed,
\* or the call fails and leaves it (glibc: EBUSY).
Shutdown_Mutex(t) ==
    /\ ~crashed
    /\ pc[t] = "shut_mutex"
    /\ IF mutexInitialized = 1
       THEN /\ \/ logMutex' = [logMutex EXCEPT !.state = "destroyed"]
               \/ /\ logMutex.owner # 0
                  /\ UNCHANGED logMutex
            /\ mutexInitialized' = 0
       ELSE UNCHANGED << logMutex, mutexInitialized >>
    /\ pc' = [pc EXCEPT ![t] = "idle"]
    /\ UNCHANGED << build, currentLevel, logFile, files, console, local, crashed >>
    /\ phase' = "down"
    /\ UNCHANGED contract
    /\ UNCHANGED sinkHistory
    /\ UNCHANGED lastSet
    /\ UNCHANGED ref

\* C++: std::lock_guard<std::mutex> lock(logMutex);
Shutdown_Lock(t) ==
    /\ ~crashed
    /\ variant = "cpp"
    /\ pc[t] = "idle"
    /\ Acquire(t)
    /\ pc' = [pc EXCEPT ![t] = "shut_body"]
    /\ UNCHANGED << build, currentLevel, logFile, mutexInitialized, files, console,
                    local, crashed >>
    /\ contract' = (contract /\ phase # "init")
    /\ phase' = IF phase = "down" THEN "down" ELSE "closing"
    /\ UNCHANGED sinkHistory
    /\ UNCHANGED lastSet
    /\ ref' = RefCall(t, RefShutdown(ref))

\* Shutdown_Body if it flushed the stream and left it open.
Shutdown_Body_NoClose(t) ==
    /\ ~crashed
    /\ pc[t] = "shut_body"
    /\ LET h == logFile.h
       IN IF h # 0
          THEN /\ handles' = [handles EXCEPT ![h] = FlushedHandle(@)]
               /\ disk' = FlushedDisk(handles[h])
               /\ UNCHANGED logFile
          ELSE UNCHANGED << files, logFile >>
    /\ logMutex' = Released(t)
    /\ pc' = [pc EXCEPT ![t] = "idle"]
    /\ UNCHANGED << build, currentLevel, mutexInitialized, console, local, crashed >>
    /\ sinkClean' = FALSE
    /\ lockOrder' = << >>
    /\ phase' = "down"
    /\ UNCHANGED contract
    /\ UNCHANGED lastSet
    /\ UNCHANGED ref

\* C++: if (logFile.is_open()) { logFile.flush(); logFile.close(); } and the
\* return.  close() leaves the failbit as it is.
Shutdown_Body(t) ==
    /\ ~crashed
    /\ pc[t] = "shut_body"
    /\ LET h == logFile.h
       IN IF h # 0
          THEN /\ handles' = Closed(h)
               /\ disk' = FlushedDisk(handles[h])
               /\ logFile' = [logFile EXCEPT !.h = 0]
          ELSE UNCHANGED << files, logFile >>
    /\ logMutex' = Released(t)
    /\ pc' = [pc EXCEPT ![t] = "idle"]
    /\ UNCHANGED << build, currentLevel, mutexInitialized, console, local, crashed >>
    /\ sinkClean' = FALSE
    /\ lockOrder' = << >>
    /\ phase' = "down"
    /\ UNCHANGED contract
    /\ UNCHANGED lastSet
    /\ UNCHANGED ref

\* -------------------------------------------------------- specification

\* The inputs of the concurrent specification: one level on each side of
\* LogLevel_Error for Log, one threshold below and one between them for
\* SetLevel, one time.
ConcLogLevels == { LogLevel_Info, LogLevel_Error }
ConcSetLevels == { LogLevel_Trace, LogLevel_Warn }
ConcTimes == { <<9, 5, 7>> }

\* Threads calling the API concurrently.
Next ==
    \E t \in Threads :
        \/ \E path \in Paths : Init_Mutex(t, path)
        \/ \E path \in Paths : Init_Lock(t, path)
        \/ Init_OpenC(t)
        \/ Init_OpenCpp(t)
        \/ Init_Warn(t)
        \/ Shutdown_Check(t)
        \/ Shutdown_Close(t)
        \/ Shutdown_CloseCrash(t)
        \/ Shutdown_Null(t)
        \/ Shutdown_Mutex(t)
        \/ Shutdown_Lock(t)
        \/ Shutdown_Body(t)
        \/ \E level \in ConcSetLevels : SetLevel_C(t, level)
        \/ \E level \in ConcSetLevels : SetLevel_Lock(t, level)
        \/ SetLevel_Write(t)
        \/ GetLevel_C(t)
        \/ GetLevel_Lock(t)
        \/ GetLevel_Read(t)
        \/ GetLevel_Return(t)
        \/ \E level \in ConcLogLevels : Log_Call(t, level)
        \/ Log_Filter(t)
        \/ \E now \in ConcTimes : Log_Lock(t, now)
        \/ Log_LockCrash(t)
        \/ Log_Console(t)
        \/ Log_ConsoleEndl(t)
        \/ Log_File(t)
        \/ Log_Flush(t)
        \/ Log_FileCrash(t)
        \/ Log_Unlock(t)
        \/ Log_Return(t)

Spec == Init /\ [][Next]_vars

SeqTimes == { <<9, 5, 7>> }

\* One thread using the API as documented, one call after the other, with every
\* level: Init only on a logger that is not initialised, Log only on one that
\* is.  Log_LockCrash, Shutdown_CloseCrash and Log_FileCrash need a call
\* outside the contract or a second thread and are never enabled here.
NextSeq ==
    \E t \in { 1 } :
        \/ \E path \in Paths : InitInContract(t) /\ Init_Mutex(t, path)
        \/ \E path \in Paths : InitInContract(t) /\ Init_Lock(t, path)
        \/ Init_OpenC(t)
        \/ Init_OpenCpp(t)
        \/ Init_Warn(t)
        \/ Shutdown_Check(t)
        \/ Shutdown_Close(t)
        \/ Shutdown_Null(t)
        \/ Shutdown_Mutex(t)
        \/ Shutdown_Lock(t)
        \/ Shutdown_Body(t)
        \/ \E level \in LogLevel : SetLevel_C(t, level)
        \/ \E level \in LogLevel : SetLevel_Lock(t, level)
        \/ SetLevel_Write(t)
        \/ GetLevel_C(t)
        \/ GetLevel_Lock(t)
        \/ GetLevel_Read(t)
        \/ GetLevel_Return(t)
        \/ \E level \in LogLevel : phase = "up" /\ Log_Call(t, level)
        \/ Log_Filter(t)
        \/ \E now \in SeqTimes : Log_Lock(t, now)
        \/ Log_Console(t)
        \/ Log_ConsoleEndl(t)
        \/ Log_File(t)
        \/ Log_Flush(t)
        \/ Log_Unlock(t)
        \/ Log_Return(t)

SpecSeq == Init /\ [][NextSeq]_vars

\* One thread making any sequence of calls, the ones the contract excludes
\* included: Init on an initialised logger, Log on one that is not.  The inputs
\* are those of the concurrent specification.  Shutdown_CloseCrash and
\* Log_FileCrash need a second thread and are never enabled here.
NextAny ==
    \E t \in { 1 } :
        \/ \E path \in Paths : Init_Mutex(t, path)
        \/ \E path \in Paths : Init_Lock(t, path)
        \/ Init_OpenC(t)
        \/ Init_OpenCpp(t)
        \/ Init_Warn(t)
        \/ Shutdown_Check(t)
        \/ Shutdown_Close(t)
        \/ Shutdown_Null(t)
        \/ Shutdown_Mutex(t)
        \/ Shutdown_Lock(t)
        \/ Shutdown_Body(t)
        \/ \E level \in ConcSetLevels : SetLevel_C(t, level)
        \/ \E level \in ConcSetLevels : SetLevel_Lock(t, level)
        \/ SetLevel_Write(t)
        \/ GetLevel_C(t)
        \/ GetLevel_Lock(t)
        \/ GetLevel_Read(t)
        \/ GetLevel_Return(t)
        \/ \E level \in ConcLogLevels : Log_Call(t, level)
        \/ Log_Filter(t)
        \/ \E now \in ConcTimes : Log_Lock(t, now)
        \/ Log_LockCrash(t)
        \/ Log_Console(t)
        \/ Log_ConsoleEndl(t)
        \/ Log_File(t)
        \/ Log_Flush(t)
        \/ Log_Unlock(t)
        \/ Log_Return(t)

SpecAny == Init /\ [][NextAny]_vars

\* The state after Init("game.log") has returned on a fresh logger: the file
\* sink is open and empty, the threshold is the default.
InitUp ==
    /\ \E b \in Builds : variant = b.variant /\ platform = b.platform
    /\ debugBuild \in BOOLEAN
    /\ currentLevel = LogLevel_Trace
    /\ logFile = [h |-> 1, fail |-> FALSE]
    /\ mutexInitialized = IF variant = "c" THEN 1 ELSE 0
    /\ logMutex = [state |-> "ready", owner |-> 0]
    /\ handles = << [path |-> GoodPath, open |-> TRUE, buf |-> << >>, pos |-> 0] >>
    /\ disk = [p \in { GoodPath } |-> << >>]
    /\ console = << >>
    /\ pc = [t \in Threads |-> "idle"]
    /\ local = [t \in Threads |-> NoLocal]
    /\ crashed = FALSE
    /\ lockOrder = << >>
    /\ sinkClean = TRUE
    /\ phase = "up"
    /\ contract = TRUE
    /\ lastSet = LogLevel_Trace
    /\ ref = [RefInit EXCEPT !.sink = TRUE, !.up = TRUE]

\* Log calls on that logger, one after the other, from every call site, at
\* every level and at every time.
NextLog ==
    \E t \in Threads :
        \/ \E level \in LogLevel :
              (\A u \in Threads : pc[u] = "idle") /\ Log_Call(t, level)
        \/ Log_Filter(t)
        \/ \E now \in Times : Log_Lock(t, now)
        \/ Log_Console(t)
        \/ Log_ConsoleEndl(t)
        \/ Log_File(t)
        \/ Log_Flush(t)
        \/ Log_Unlock(t)
        \/ Log_Return(t)

SpecLog == InitUp /\ [][NextLog]_vars

\* Threads logging and setting the threshold concurrently on that logger.
NextLogSet ==
    \E t \in Threads :
        \/ \E level \in ConcSetLevels : SetLevel_C(t, level)
        \/ \E level \in ConcSetLevels : SetLevel_Lock(t, level)
        \/ SetLevel_Write(t)
        \/ \E level \in ConcLogLevels : Log_Call(t, level)
        \/ Log_Filter(t)
        \/ \E now \in ConcTimes : Log_Lock(t, now)
        \/ Log_Console(t)
        \/ Log_ConsoleEndl(t)
        \/ Log_File(t)
        \/ Log_Flush(t)
        \/ Log_Unlock(t)
        \/ Log_Return(t)

SpecLogSet == InitUp /\ [][NextLogSet]_vars

\* A step of thread t inside a call that does not wait for the lock: every
\* statement of a call but its entry, the lock of Log and the crashes.
Continue(t) ==
    \/ Init_OpenC(t)
    \/ Init_OpenCpp(t)
    \/ Init_Warn(t)
    \/ Shutdown_Close(t)
    \/ Shutdown_Null(t)
    \/ Shutdown_Mutex(t)
    \/ Shutdown_Body(t)
    \/ SetLevel_Write(t)
    \/ GetLevel_Read(t)
    \/ GetLevel_Return(t)
    \/ Log_Filter(t)
    \/ Log_Console(t)
    \/ Log_ConsoleEndl(t)
    \/ Log_File(t)
    \/ Log_Flush(t)
    \/ Log_Unlock(t)
    \/ Log_Return(t)

\* Fair scheduling: a thread inside a call is not halted for ever, and a thread
\* waiting for the lock gets it if the lock is free again and again.
Fairness ==
    \A t \in Threads :
        /\ WF_vars(Continue(t))
        /\ SF_vars(\E now \in ConcTimes : Log_Lock(t, now))

\* The inputs of the fair specification: a path that opens and one that does
\* not, one level to log at and one threshold above it.
FairPaths == { GoodPath, BadPath }
FairLogLevels == { LogLevel_Info }
FairSetLevels == { LogLevel_Warn }

\* Threads calling the API concurrently, with these inputs.
NextFair ==
    \E t \in Threads :
        \/ \E path \in FairPaths : Init_Mutex(t, path)
        \/ \E path \in FairPaths : Init_Lock(t, path)
        \/ Shutdown_Check(t)
        \/ Shutdown_Lock(t)
        \/ \E level \in FairSetLevels : SetLevel_C(t, level)
        \/ \E level \in FairSetLevels : SetLevel_Lock(t, level)
        \/ GetLevel_C(t)
        \/ GetLevel_Lock(t)
        \/ \E level \in FairLogLevels : Log_Call(t, level)
        \/ \E now \in ConcTimes : Log_Lock(t, now)
        \/ Continue(t)
        \/ Log_LockCrash(t)
        \/ Log_FileCrash(t)
        \/ Shutdown_CloseCrash(t)

\* Threads calling the API concurrently under fair scheduling.
SpecFair == Init /\ [][NextFair]_vars /\ Fairness

\* ----------------------------------------------------------- properties

\* The logger and its outputs: all of the state but the threads' positions and
\* the history.
LoggerState == << currentLevel, logFile, mutexInitialized, logMutex, handles, disk, console >>

\* What has been written to the console, and to the log file on disk, since
\* thread t's Log call began.
ConsoleSince(t) == SubSeq(console, local[t].console0 + 1, Len(console))
FileSince(t) == SubSeq(disk[GoodPath], local[t].files0 + 1, Len(disk[GoodPath]))

\* The record of thread t's Log call as the console and as the file get it.
ConsoleRecord(t) == ConsoleBody(local[t].timeStr, local[t].level, CallSite(t)) \o << NL >>
FileRecord(t) == LineBody(local[t].timeStr, local[t].level, CallSite(t)) \o << NL >>

\* C1: a Log call at a level below the threshold has no side effect.  Entering
\* the call, the filter and the return each leave the threshold, the file
\* handle, the mutex, the files and the console as they were, and the filter
\* goes straight to the return, so the lock is never taken.
C1_FilteredLogHasNoEffect ==
    [][ \A t \in Threads :
          /\ (pc[t] = "idle" /\ pc'[t] = "log_filter") => UNCHANGED LoggerState
          /\ (pc[t] = "log_filter" /\ local[t].level < currentLevel /\ pc'[t] # pc[t])
                => (pc'[t] = "log_return" /\ UNCHANGED LoggerState)
          /\ (pc[t] = "log_return" /\ local[t].level < currentLevel /\ pc'[t] # pc[t])
                => (pc'[t] = "idle" /\ UNCHANGED LoggerState) ]_vars

\* A Log call at Trace has been filtered by the threshold Fatal and is about
\* to return, in a debug build, with a file sink open and lines on the console.
C1_Witness ==
    /\ debugBuild
    /\ pc[1] = "log_return"
    /\ local[1].level = LogLevel_Trace
    /\ currentLevel = LogLevel_Fatal
    /\ logFile.h # 0
    /\ console # << >>

\* C2: in a debug build and within the contract, a Log call at a level at or
\* above the threshold (the threshold itself included) has, when it returns,
\* added exactly its one record to the console and, if a file sink is open,
\* exactly its one record to the file.
C2_LogAtOrAboveThresholdEmitsOnce ==
    \A t \in Threads :
        (pc[t] = "log_return" /\ contract /\ debugBuild /\ local[t].level >= currentLevel)
            => /\ Flatten(ConsoleSince(t)) = ConsoleRecord(t)
               /\ logFile.h # 0 => FileSince(t) = FileRecord(t)

\* A Log call at the threshold, which SetLevel has raised, is about to return
\* with a file sink open.
C2_Witness ==
    /\ debugBuild
    /\ contract
    /\ pc[1] = "log_return"
    /\ local[1].level = currentLevel
    /\ currentLevel # LogLevel_Trace
    /\ logFile.h # 0

\* C3 as claimed: a Log call at a level at or below the threshold (the
\* threshold itself included) produces no output on the console or in the file.
C3_AtOrBelowThresholdNoOutput ==
    \A t \in Threads :
        (pc[t] = "log_return" /\ contract /\ debugBuild /\ local[t].level <= currentLevel)
            => /\ Len(console) = local[t].console0
               /\ Len(disk[GoodPath]) = local[t].files0

\* C3: a Log call at a level strictly below the threshold produces no output on
\* the console or in the file: when it returns, both are as long as it found
\* them and no handle holds buffered text.
C3_BelowThresholdNoOutput ==
    \A t \in Threads :
        (pc[t] = "log_return" /\ local[t].level < currentLevel)
            => /\ Len(console) = local[t].console0
               /\ Len(disk[GoodPath]) = local[t].files0
               /\ \A h \in 1..Len(handles) : handles[h].buf = << >>

\* A Log call one level below the threshold is about to return on an
\* initialised logger with a file sink open.
C3_Witness ==
    /\ debugBuild
    /\ contract
    /\ phase = "up"
    /\ pc[1] = "log_return"
    /\ local[1].level + 1 = currentLevel
    /\ logFile.h # 0

\* The colour codes that open a record on the console.
LevelColors == { LevelToColor(level) : level \in LogLevel }

\* A console write that is a record: the colour code, then "[" and the time;
\* the level name is its 12th token.
IsRecordWrite(w) == Len(w.text) >= 12 /\ w.text[1] \in LevelColors /\ w.text[2] = "["
RecordLevelName(w) == w.text[12]

\* C4: every record at ERROR or FATAL is written to stderr, every record at
\* another level to stdout, and the newline that ends a record goes to the
\* stream of the record.
C4_StreamRouting ==
    \A i \in 1..Len(console) :
        LET w == console[i]
        IN /\ IsRecordWrite(w)
                => w.stream = IF RecordLevelName(w) \in { "ERROR", "FATAL" }
                              THEN "stderr" ELSE "stdout"
           /\ w.text = << NL >>
                => (i > 1 /\ IsRecordWrite(console[i - 1])
                          /\ w.stream = console[i - 1].stream)

\* The console holds a record at ERROR and a record at WARN.
C4_Witness ==
    /\ \E i \in 1..Len(console) :
          IsRecordWrite(console[i]) /\ RecordLevelName(console[i]) = "ERROR"
    /\ \E i \in 1..Len(console) :
          IsRecordWrite(console[i]) /\ RecordLevelName(console[i]) = "WARN"

RECURSIVE SplitLines(_, _)
\* The lines of a text: what stands between its newlines.  cur is the line
\* begun so far; text after the last newline counts as a line.
SplitLines(text, cur) ==
    IF text = << >> THEN (IF cur = << >> THEN << >> ELSE << cur >>)
    ELSE IF Head(text) = NL THEN << cur >> \o SplitLines(Tail(text), << >>)
    ELSE SplitLines(Tail(text), Append(cur, Head(text)))

\* The records in the log file on disk, one per line.
FileRecords == SplitLines(disk[GoodPath], << >>)

\* The records on the console, in the order they were written, without colour
\* code, reset code and newline.
ConsoleRecords ==
    LET ws == SelectSeq(console, IsRecordWrite)
    IN [i \in 1..Len(ws) |->
          SelectSeq(ws[i].text, LAMBDA x : x \notin LevelColors \cup { RESET_COLOR, NL })]

\* The last n elements of a sequence.
LastN(seq, n) == SubSeq(seq, Len(seq) - n + 1, Len(seq))

\* The file sink is open, has been the logger's sink since it was opened with
\* no Log call under way past the lock, and no Log call is past the lock now.
SinkOpenAndQuiet ==
    /\ sinkClean
    /\ logFile.h # 0
    /\ \A t \in Threads : pc[t] \notin LogLockedPcs

\* C5: whenever the Log calls made since the file sink was opened have all
\* left the lock, the records in the file are the records that these calls
\* wrote to the console, in the same order.
C5_SinksAgreeOnOrder ==
    (contract /\ SinkOpenAndQuiet)
        => FileRecords = LastN(ConsoleRecords, Len(lockOrder))

\* C6: on an initialised logger at most one thread is between the lock and the
\* unlock of Log.
C6_LogMutualExclusion ==
    (contract /\ phase = "up")
        => Cardinality({ t \in Threads : pc[t] \in LogLockedPcs }) <= 1

\* The line a Log call that got past the lock writes to the file.
LockedRecord(e) == LineBody(e.timeStr, e.level, CallSite(e.thread))

\* C7: once the Log calls made since the file sink was opened have all left
\* the lock, the file holds exactly their records, each once and whole, in the
\* order in which the calls got past the lock.
C7_FileHoldsRecordsInLockOrder ==
    (contract /\ SinkOpenAndQuiet)
        => FileRecords = [i \in 1..Len(lockOrder) |-> LockedRecord(lockOrder[i])]

\* The statements of Shutdown.
ShutdownPcs == { "shut_close", "shut_null", "shut_mutex", "shut_body" }

\* Thread t takes a step of a Shutdown call.
ShutdownStep(t) == pc'[t] # pc[t] /\ (pc[t] \in ShutdownPcs \/ pc'[t] \in ShutdownPcs)

\* C8: Shutdown is idempotent.  A step of Shutdown taken while no file sink is
\* open leaves the threshold, the file handle, the files and the console as
\* they were, never comes to fclose and does not end the process; a step of a
\* Shutdown call that follows a Shutdown call also leaves the mutex neither
\* initialised nor destroyed, and free when the call returns.
C8_ShutdownIdempotent ==
    [][ \A t \in Threads :
          /\ (ShutdownStep(t) /\ logFile.h = 0)
                => /\ UNCHANGED << currentLevel, logFile, handles, disk, console >>
                   /\ pc'[t] # "shut_close"
                   /\ ~crashed'
          /\ (ShutdownStep(t) /\ phase = "down")
                => /\ UNCHANGED << currentLevel, logFile, mutexInitialized, handles,
                                   disk, console >>
                   /\ logMutex'.state = logMutex.state
                   /\ pc'[t] = "idle" => logMutex'.owner = 0
                   /\ ~crashed' ]_vars

\* A second Shutdown call in a row is under way on a logger that had a file
\* sink, which the first Shutdown has closed.
C8_Witness ==
    /\ phase = "down"
    /\ pc[1] \in { "shut_mutex", "shut_body" }
    /\ handles # << >>
    /\ logFile.h = 0

\* C9: an Init whose open fails goes on to the warning and returns, with no
\* file sink and the files as they were; the warning is one write to stderr
\* and no write to a file; and a Log call at or above the threshold that
\* returns while there is no file sink has added its record to the console and
\* nothing to any file.
C9_FailedInitDegradesToConsole ==
    [][ \A t \in Threads :
          /\ (contract /\ pc[t] = "init_open" /\ local[t].path # EmptyPath
                       /\ ~Openable(local[t].path) /\ pc'[t] # pc[t])
                => /\ pc'[t] = "init_warn"
                   /\ logFile'.h = 0
                   /\ UNCHANGED << currentLevel, handles, disk, console >>
                   /\ ~crashed'
          /\ (contract /\ pc[t] = "init_warn" /\ pc'[t] # pc[t])
                => /\ pc'[t] = "idle"
                   /\ logFile'.h = 0
                   /\ UNCHANGED << currentLevel, handles, disk >>
                   /\ ~crashed'
                   /\ Len(console') = Len(console) + 1
                   /\ SubSeq(console', 1, Len(console)) = console
                   /\ console'[Len(console')].stream = "stderr"
          /\ (contract /\ pc[t] = "log_return" /\ debugBuild /\ logFile.h = 0
                       /\ local[t].level >= currentLevel)
                => /\ Flatten(ConsoleSince(t)) = ConsoleRecord(t)
                   /\ Len(disk[GoodPath]) = local[t].files0
                   /\ \A h \in 1..Len(handles) : handles[h].buf = << >> ]_vars

\* A Log call at or above the threshold is about to return on a logger whose
\* Init failed to open the file: the warning is the last write to the console
\* before the call, on stderr.
C9_Witness ==
    /\ debugBuild
    /\ contract
    /\ phase = "up"
    /\ logFile.h = 0
    /\ pc[1] = "log_return"
    /\ local[1].level >= currentLevel
    /\ local[1].console0 >= 1
    /\ console[local[1].console0] = [stream |-> "stderr", text |-> WarningText(BadPath)]

\* Thread t takes a step that reads or writes currentLevel or logFile: the
\* filter of Log, the test and the write of the file in Log, the body of
\* SetLevel and of GetLevel, the open in Init, and the steps of Shutdown but
\* the one that destroys the mutex.
AccessStep(t) ==
    /\ pc'[t] # pc[t]
    /\ \/ pc[t] = "log_filter" /\ debugBuild
       \/ pc[t] \in { "log_file", "log_fflush", "set_write", "get_read", "init_open",
                      "shut_close", "shut_null", "shut_body" }
       \/ pc[t] = "idle" /\ pc'[t] \in { "get_done", "shut_close", "shut_mutex" }

\* C10: every read and every write of currentLevel and of logFile is made by
\* a thread that holds the mutex.
C10_AccessUnderLock ==
    [][ /\ \A t \in Threads : (contract /\ AccessStep(t)) => logMutex.owner = t
        /\ (contract /\ (currentLevel' # currentLevel \/ logFile' # logFile))
              => (logMutex.owner # 0 /\ pc'[logMutex.owner] # pc[logMutex.owner]) ]_vars

\* The file sink is present, open and takes writes.
SinkUsable ==
    /\ logFile.h # 0
    /\ handles[logFile.h].open
    /\ ~logFile.fail

\* Thread t takes the step of an Init call that opens a path.
InitOpenStep(t) == pc[t] = "init_open" /\ pc'[t] # pc[t] /\ local[t].path # EmptyPath

\* C11 as claimed: a file sink that is open and takes writes stays the file
\* sink, open and taking writes, over every step that is not a step of
\* Shutdown: over the steps of Log, SetLevel and GetLevel and over those of a
\* further Init with any path.
C11_SinkStaysOpenOverAnyInit ==
    [][ (SinkUsable /\ ~\E t \in Threads : ShutdownStep(t))
            => (logFile' = logFile /\ handles'[logFile.h].open) ]_vars

\* C11: a file sink that is open and takes writes stays the file sink, open
\* and taking writes, over every step of Log, SetLevel and GetLevel and of a
\* further Init with an empty path: over every step but those of Shutdown and
\* the open of an Init with a path.
C11_SinkStaysOpen ==
    [][ (SinkUsable /\ ~\E t \in Threads : ShutdownStep(t) \/ InitOpenStep(t))
            => (logFile' = logFile /\ handles'[logFile.h].open) ]_vars

\* A further Init, with an empty path, is under way on a logger whose file sink
\* is open and holds a record of a Log call.
C11_Witness ==
    /\ SinkUsable
    /\ pc[1] = "init_open"
    /\ local[1].path = EmptyPath
    /\ disk[handles[logFile.h].path] # << >>

\* Every open file handle is the file sink: no handle but logFile is open.
OnlySinkOpen == \A h \in 1..Len(handles) : handles[h].open => logFile.h = h

\* C12 as claimed: in every reachable state, whatever calls were made, every
\* open file handle is the current file sink, so at most one handle is open.
C12_OnlySinkOpenAlways == OnlySinkOpen

\* C12: no handle is open before the first call, and every step keeps "every
\* open file handle is the current file sink" but the open of an Init with a
\* path that is made while logFile holds a handle.
C12_OnlySinkOpen ==
    /\ handles = << >>
    /\ [][ (OnlySinkOpen /\ ~\E t \in Threads : InitOpenStep(t) /\ logFile.h # 0)
              => OnlySinkOpen' ]_vars

\* The logger has opened two files, one after the other: Shutdown has closed the
\* first, the second is the file sink and the only open handle.
C12_Witness ==
    /\ Len(handles) = 2
    /\ ~handles[1].open
    /\ handles[2].open
    /\ logFile.h = 2
    /\ OnlySinkOpen

\* No handle holds text that has not been written to disk.
NothingBuffered == \A h \in 1..Len(handles) : handles[h].buf = << >>

Front(text) == SubSeq(text, 1, Len(text) - 1)

\* C14: when a Log call that emitted a record with the file sink open returns,
\* the console and the file have one line more, each ended by a newline.  The
\* file line is "[", the time, "] ", the level name, " ", the source file, ":",
\* the line number, " (", the function, ") - " and the message, and holds no
\* colour or reset code; the console line is the level's colour code, the file
\* line and the reset code.  For RELOG_ERROR("disk full") in save at x.c:42 the
\* file line after the time is "ERROR x.c:42 (save) - disk full" and the
\* console line opens with the red foreground code.
C14_LineFormat ==
    \A t \in Threads :
        (pc[t] = "log_return" /\ debugBuild /\ local[t].level >= currentLevel)
            => LET cons == Flatten(ConsoleSince(t))
                   file == FileSince(t)
                   site == CallSite(t)
               IN /\ cons # << >> /\ cons[Len(cons)] = NL
                  /\ file # << >> /\ file[Len(file)] = NL
                  /\ Front(file) =
                        << "[" >> \o local[t].timeStr
                            \o << "] ", LevelToString(local[t].level), " ", site.file, ":" >>
                            \o Decimal(site.line)
                            \o << " (", site.func, ") - ", site.message >>
                  /\ \A i \in 1..Len(file) : file[i] \notin LevelColors \cup { RESET_COLOR }
                  /\ Front(cons) =
                        << LevelToColor(local[t].level) >> \o Front(file) \o << RESET_COLOR >>
                  /\ (t = 1 /\ local[t].level = LogLevel_Error)
                        => /\ SubSeq(file, 11, Len(file) - 1) =
                                 << "ERROR", " ", "x.c", ":", "4", "2", " (", "save",
                                    ") - ", "disk full" >>
                           /\ cons[1] = "\\033[31m"
                           /\ cons[Len(cons) - 1] = "\\033[0m"

\* RELOG_ERROR("disk full") in save at x.c:42, made at 23:59:58 after a Log call
\* from the other call site, is about to return with both lines in the file.
C14_Witness ==
    /\ debugBuild
    /\ pc[1] = "log_return"
    /\ local[1].level = LogLevel_Error
    /\ local[1].timeStr = FormatTime(<< 23, 59, 58 >>)
    /\ Len(FileRecords) = 2
    /\ FileRecords[1][13] = "main.c"

\* C15: the value a GetLevel call returns is the argument of the SetLevel call
\* that returned last, and LogLevel_Trace if there was none, whatever Init,
\* Shutdown and Log calls were made since.
C15_GetLevelReturnsLastSet ==
    \A t \in Threads : pc[t] = "get_done" => local[t].level = lastSet

\* GetLevel is about to return LogLevel_Fatal on a logger that has logged to
\* the console and to the file and has been shut down.
C15_Witness ==
    /\ pc[1] = "get_done"
    /\ local[1].level = LogLevel_Fatal
    /\ phase = "down"
    /\ console # << >>
    /\ disk[GoodPath] # << >>

\* The statements of Log from the lock to the flush of the file.
LogWritingPcs == { "log_console", "log_console_endl", "log_file", "log_fflush" }

\* C16: from the return of an Init that opened the file to the next Shutdown,
\* the file on disk holds the records of the Log calls made since that Init,
\* whole and in order, and nothing else: nothing when no Log call has been
\* made since, whatever the file held before; all but the record of the call
\* under way while that call has not flushed.
C16_InitTruncates ==
    (contract /\ sinkClean /\ logFile.h # 0)
        => LET n == Len(lockOrder)
               recs == [i \in 1..n |-> LockedRecord(lockOrder[i])]
           IN IF \E t \in Threads : pc[t] \in LogWritingPcs
              THEN FileRecords = SubSeq(recs, 1, n - 1)
              ELSE FileRecords = recs

\* A second Init has opened game.log again after a Shutdown; two records are
\* on the console, and the file holds the one logged since the second Init.
C16_Witness ==
    /\ contract
    /\ sinkClean
    /\ Len(handles) = 2
    /\ handles[1].path = GoodPath
    /\ ~handles[1].open
    /\ logFile.h = 2
    /\ handles[2].path = GoodPath
    /\ Len(ConsoleRecords) = 2
    /\ Len(lockOrder) = 1
    /\ FileRecords = << ConsoleRecords[2] >>

\* The statements of Log.
LogPcs == { "log_filter", "log_lock", "log_return" } \cup LogLockedPcs

\* Thread t takes a step of a Log call.
LogStep(t) == pc'[t] # pc[t] /\ (pc[t] \in LogPcs \/ pc'[t] \in LogPcs)

\* C17: in a build without the debug flag (C: DEBUG not defined; C++: NDEBUG
\* defined) every step of a Log call, at any level, leaves the logger, the
\* console and the files as they were and the call never comes to the lock;
\* no record is ever on the console or in the file.  The other calls work: an
\* Init whose open succeeds leaves an open, empty file as the sink, a Shutdown
\* returns with no sink and no open handle, SetLevel stores its argument and
\* GetLevel returns the threshold.
C17_LogInertWithoutDebugFlag ==
    [][ ~debugBuild =>
          /\ \A t \in Threads :
                /\ LogStep(t) => UNCHANGED LoggerState
                /\ pc'[t] \notin { "log_lock" } \cup LogLockedPcs
                /\ (contract /\ pc[t] = "init_open" /\ pc'[t] # pc[t]
                             /\ Openable(local[t].path))
                      => (SinkUsable' /\ logFile'.h = Len(handles) + 1
                                      /\ disk'[local[t].path] = << >>)
                /\ (contract /\ pc[t] \in { "shut_mutex", "shut_body" } /\ pc'[t] = "idle")
                      => (logFile'.h = 0 /\ \A h \in 1..Len(handles') : ~handles'[h].open)
                /\ (pc[t] = "set_write" /\ pc'[t] # pc[t]) => currentLevel' = local[t].level
                /\ pc'[t] = "get_done" => local'[t].level = currentLevel
          /\ currentLevel' = lastSet'
          /\ \A i \in 1..Len(console') : ~IsRecordWrite(console'[i])
          /\ disk'[GoodPath] = << >> ]_vars

\* In a build without the debug flag a Log call at Fatal is about to return
\* with nothing on the console: SetLevel has set the threshold to Warn and a
\* second Init, after a Shutdown, has opened the file sink.
C17_Witness ==
    /\ ~debugBuild
    /\ contract
    /\ pc[1] = "log_return"
    /\ local[1].level = LogLevel_Fatal
    /\ currentLevel = LogLevel_Warn
    /\ SinkUsable
    /\ Len(handles) = 2
    /\ console = << >>

\* The write that puts the record of thread t's Log call on the console.
ConsoleEmission(t) ==
    [stream |-> OutStream(local[t].level),
     text |-> IF variant = "c" THEN ConsoleRecord(t)
              ELSE ConsoleBody(local[t].timeStr, local[t].level, CallSite(t))]

\* C18: in a debug build the filter of a Log call decides by the argument of
\* the SetLevel call that returned last: the call returns if its level is below
\* it and goes on to the lock otherwise.  A call that has passed the filter
\* takes the lock and writes its record to the console whatever the threshold
\* has become since, and a call past that write has its record on the
\* console.
C18_ThresholdNotRetroactive ==
    [][ \A t \in Threads :
          /\ (debugBuild /\ pc[t] = "log_filter" /\ pc'[t] # pc[t])
                => pc'[t] = IF local[t].level < lastSet THEN "log_return" ELSE "log_lock"
          /\ (pc[t] = "log_lock" /\ pc'[t] # pc[t]) => pc'[t] = "log_console"
          /\ (pc[t] = "log_console" /\ pc'[t] # pc[t])
                => console' = Append(console, ConsoleEmission(t))
          /\ pc[t] \in { "log_file", "log_fflush", "log_unlock" }
                => \E i \in (local[t].console0 + 1)..Len(console) :
                      console[i] = ConsoleEmission(t) ]_vars

\* Thread 1's Log call at Info passed the filter, SetLevel then raised the
\* threshold to Warn, and the call has emitted its record all the same; thread
\* 2's Log call at Info, made after that SetLevel, has been filtered.
C18_Witness ==
    /\ debugBuild
    /\ pc[1] = "log_unlock"
    /\ local[1].level = LogLevel_Info
    /\ currentLevel = LogLevel_Warn
    /\ lastSet = LogLevel_Warn
    /\ console[Len(console) - (IF variant = "c" THEN 0 ELSE 1)] = ConsoleEmission(1)
    /\ pc[2] = "log_return"
    /\ local[2].level = LogLevel_Info
    /\ local[2].console0 = Len(console)

\* C19: whatever Shutdown call another thread makes meanwhile, the steps of a
\* Log call that write the record to logFile and flush it find the handle open:
\* the sink is not closed between the test of logFile, the write and the flush.
C19_NoWriteToClosedSink ==
    [][ \A t \in Threads :
          (contract /\ pc[t] \in { "log_file", "log_fflush" } /\ pc'[t] # pc[t]
                    /\ logFile.h # 0)
              => handles[logFile.h].open ]_vars

\* C20: the steps of a Log call that lock and unlock the mutex find it
\* initialised and not destroyed, and the step of Shutdown that destroys the
\* mutex finds it free.
C20_LockOnlyWhileValid ==
    [][ contract =>
          /\ \A t \in Threads :
                (pc[t] \in { "log_lock", "log_unlock" } /\ pc'[t] # pc[t]) => MutexValid
          /\ (logMutex.state # "destroyed" /\ logMutex'.state = "destroyed")
                => logMutex.owner = 0 ]_vars

\* C21: under fair scheduling every call that has begun returns and every
\* thread that has the lock releases it.
C21_EveryCallReturns ==
    /\ \A t \in Threads : (contract /\ pc[t] # "idle") ~> (pc[t] = "idle" \/ ~contract)
    /\ \A t \in Threads : (contract /\ logMutex.owner = t) ~> (logMutex.owner # t \/ ~contract)

\* The records written to one console stream, in order, without the line ends.
RecordsOn(stream) ==
    LET IsOn(w) == w.stream = stream /\ IsRecordWrite(w)
        ws == SelectSeq(console, IsOn)
        NotNL(x) == x # NL
    IN [i \in 1..Len(ws) |-> SelectSeq(ws[i].text, NotNL)]

\* Every call made has returned or can go on, and what a single-threaded
\* caller can see of the logger between two calls, and the result where a
\* GetLevel call returns, are those of the reference logger.
AsReference ==
    /\ ~crashed
    /\ (\A t \in Threads : pc[t] = "idle")
          => /\ currentLevel = ref.level
             /\ (logFile.h # 0) = ref.sink
             /\ RecordsOn("stdout") = ref.out
             /\ RecordsOn("stderr") = ref.err
             /\ disk[GoodPath] = ref.file
             /\ ref.pending = << >>
    /\ \A t \in Threads : pc[t] = "get_done" => local[t].level = ref.level

SetLevelStep ==
    \/ \E t \in Threads : pc[t] = "set_write" /\ pc'[t] # pc[t]
    \/ variant = "c" /\ pc' = pc /\ crashed' = crashed

\* C23: a step that changes the threshold is a step of SetLevel, and a step
\* after which a file sink is held where none was, or none is held where one
\* was, is the open of an Init with a non-empty path or a step of Shutdown.
C23_FrameEffects ==
    [][ /\ currentLevel' # currentLevel => SetLevelStep
        /\ ((logFile'.h = 0) # (logFile.h = 0))
              => \E t \in Threads : InitOpenStep(t) \/ ShutdownStep(t) ]_vars

\* After Init, SetLevel(WARN), Shutdown and a second Init with a path, all as
\* documented: the threshold is still WARN and the second file handle is the
\* sink.
C23_Witness ==
    /\ contract
    /\ \A t \in Threads : pc[t] = "idle"
    /\ currentLevel = LogLevel_Warn
    /\ Len(handles) = 2
    /\ ~handles[1].open
    /\ logFile.h = 2 /\ handles[2].open

====
